---- MODULE Spec2Model ----
(***************************************************************************)
(* Model of the cohort_validator package: the CohortValidator wrapper      *)
(* around the CIRCE checker (cohort_validator.py) and the command line     *)
(* front end (cli.py).                                                     *)
(*                                                                         *)
(* One operating-system process is modelled.  It is entered either through *)
(* the library API (a client script constructing validators and calling    *)
(* validate_cohort / validate_cohort_file / shutdown in any order) or      *)
(* through cli.main.  Python is single threaded here: one call is active   *)
(* at a time, and each call advances statement by statement.               *)
(***************************************************************************)
EXTENDS Integers, Sequences, FiniteSets, TLC

(***************************************************************************)
(* Bounds                                                                  *)
(***************************************************************************)
\* largest number of warnings the rules on values, ranges and windows
\* produce for one expression
MaxWarnings == 2

\* number of validator objects a client script may construct
MaxValidators == 2

\* largest number of concept sets of one expression
MaxConceptSets == 2

\* the validator objects of the process
Validators == 1..MaxValidators

(***************************************************************************)
(* Strings whose letters matter are sequences of characters, so that       *)
(* str.upper() is computed and not assumed.                                *)
(***************************************************************************)
LowerLetters == <<"a","b","c","d","e","f","g","h","i","j","k","l","m",
                  "n","o","p","q","r","s","t","u","v","w","x","y","z">>
UpperLetters == <<"A","B","C","D","E","F","G","H","I","J","K","L","M",
                  "N","O","P","Q","R","S","T","U","V","W","X","Y","Z">>

UpperChar(c) ==
    IF \E i \in 1..26 : LowerLetters[i] = c
    THEN UpperLetters[CHOOSE i \in 1..26 : LowerLetters[i] = c]
    ELSE c

\* str.upper()
Upper(s) == [i \in 1..Len(s) |-> UpperChar(s[i])]

INFO       == <<"I","N","F","O">>
WARNING    == <<"W","A","R","N","I","N","G">>
ERROR      == <<"E","R","R","O","R">>
CRITICAL   == <<"C","R","I","T","I","C","A","L">>
UNKNOWN    == <<"U","N","K","N","O","W","N">>
LowerError == <<"e","r","r","o","r">>

(***************************************************************************)
(* The Java side: warnings, expressions, parser and checker.               *)
(***************************************************************************)
\* a Java object as JPype hands it to Python: its class and the text its
\* toString() yields
JavaObject(class, text) == [jclass |-> class, text |-> text]

\* str(obj) on a Java object: the Python str of its toString()
Str(obj) == obj.text

\* a Java Warning object as the wrapper sees it: the objects returned by
\* toMessage(), getSeverity() (when the object has that method) and
\* getClass().getSimpleName(), and whether reading it throws a Java exception
JavaWarning(m, hasSev, sev, name, faulty) ==
    [message |-> JavaObject("java.lang.String", m),
     hasGetSeverity |-> hasSev,
     severity |-> JavaObject("WarningSeverity", sev),
     simpleName |-> JavaObject("java.lang.String", name),
     faulty |-> faulty]

JavaWarningPool ==
    { JavaWarning("incomplete rule",    TRUE,  INFO,       "IncompleteRuleWarning", FALSE),
      JavaWarning("duplicate concepts", TRUE,  WARNING,    "ConceptSetWarning",     FALSE),
      JavaWarning("empty value",        TRUE,  ERROR,      "DefaultWarning",        FALSE),
      JavaWarning("no primary events",  TRUE,  CRITICAL,   "DefaultWarning",        FALSE),
      JavaWarning("contradictory range",TRUE,  LowerError, "DefaultWarning",        FALSE),
      JavaWarning("legacy warning",     FALSE, INFO,       "Warning",               FALSE),
      JavaWarning("broken warning",     TRUE,  WARNING,    "DefaultWarning",        TRUE) }

SeqUpTo(S, n) == UNION { [1..k -> S] : k \in 0..n }

\* the ids of the concept sets a document declares, and an id none declares
ConceptSetIds == 1..MaxConceptSets
DanglingId == 99

\* A cohort document, abstracted to what the Java library makes of it:
\*   shape        "ok"        a well-formed expression
\*                "noPrimary" the required PrimaryCriteria section is absent
\*                "badType"   a field holds a value of the wrong type
\*   findings     the warnings the other rules of the catalog produce for it,
\*                in rule order
\*   checkFails   the checker throws on it
\*   conceptSets  the ids of its ConceptSets
\*   codesetIds   the CodesetIds its criteria refer to
\*   primaryEmpty PrimaryCriteria.CriteriaList is empty
\*   endStrategy  it has an EndStrategy
\* Document builds one with no concept set, no reference, a primary
\* criterion and an end strategy
Document(shape, findings, checkFails) ==
    [shape |-> shape, findings |-> findings, checkFails |-> checkFails,
     conceptSets |-> {}, codesetIds |-> {},
     primaryEmpty |-> FALSE, endStrategy |-> TRUE]

NoDoc == Document("none", <<>>, FALSE)

\* a well-formed expression with the given concept sets, references and
\* sections, to which no other rule objects
Expression(conceptSets, codesetIds, primaryEmpty, endStrategy) ==
    [Document("ok", <<>>, FALSE) EXCEPT !.conceptSets = conceptSets,
                                        !.codesetIds = codesetIds,
                                        !.primaryEmpty = primaryEmpty,
                                        !.endStrategy = endStrategy]

Expressions ==
    { Expression(cs, refs, pe, es) :
        cs \in SUBSET ConceptSetIds,
        refs \in SUBSET (ConceptSetIds \cup {DanglingId}),
        pe \in BOOLEAN, es \in BOOLEAN }

Documents ==
    { Document("ok", f, FALSE) : f \in SeqUpTo(JavaWarningPool, MaxWarnings) }
    \cup { Document("ok", <<>>, TRUE),
           Document("noPrimary", <<>>, FALSE),
           Document("badType", <<>>, FALSE) }
    \cup Expressions

\* decimal text of a natural number (how an id appears in a message)
Digits == <<"0", "1", "2", "3", "4", "5", "6", "7", "8", "9">>
RECURSIVE IdText(_)
IdText(n) ==
    IF n < 10 THEN Digits[n + 1]
    ELSE IdText(n \div 10) \o Digits[(n % 10) + 1]

\* the elements of a set of numbers in increasing order
RECURSIVE Ascending(_)
Ascending(S) ==
    IF S = {} THEN <<>>
    ELSE LET m == CHOOSE x \in S : \A y \in S : x <= y
         IN  <<m>> \o Ascending(S \ {m})

\* the warning objects of four rules of the catalog; the class of a rule's
\* warning is named by the rule's identifier
UnusedConceptSetWarning(id) ==
    JavaWarning("Concept set " \o IdText(id) \o " is not used",
                TRUE, WARNING, "UNUSED_CONCEPT_SET", FALSE)
DanglingReferenceWarning(id) ==
    JavaWarning("Concept set " \o IdText(id) \o " is not defined",
                TRUE, ERROR, "DANGLING_REFERENCE", FALSE)
MissingRequiredSectionWarning ==
    JavaWarning("Primary criteria list is empty",
                TRUE, ERROR, "MISSING_REQUIRED_SECTION", FALSE)
MissingExitCriteriaWarning ==
    JavaWarning("No exit criteria",
                TRUE, WARNING, "MISSING_EXIT_CRITERIA", FALSE)

RuleWarnings ==
    { UnusedConceptSetWarning(id) : id \in ConceptSetIds }
    \cup { DanglingReferenceWarning(id) : id \in ConceptSetIds \cup {DanglingId} }
    \cup { MissingRequiredSectionWarning, MissingExitCriteriaWarning }

\* the cross-reference index: the concept sets no criterion refers to, and
\* the references to a concept set the document does not declare
Unreferenced(expr) == expr.conceptSets \ expr.codesetIds
Dangling(expr) == expr.codesetIds \ expr.conceptSets

\* the rules: each a function of the expression
UnusedConceptSetRule(expr) ==
    LET ids == Ascending(Unreferenced(expr))
    IN  [k \in 1..Len(ids) |-> UnusedConceptSetWarning(ids[k])]
DanglingReferenceRule(expr) ==
    LET ids == Ascending(Dangling(expr))
    IN  [k \in 1..Len(ids) |-> DanglingReferenceWarning(ids[k])]
MissingRequiredSectionRule(expr) ==
    IF expr.primaryEmpty THEN <<MissingRequiredSectionWarning>> ELSE <<>>
MissingExitCriteriaRule(expr) ==
    IF expr.endStrategy THEN <<>> ELSE <<MissingExitCriteriaWarning>>

(***************************************************************************)
(* Python values handed to validate_cohort, and JSON text.                 *)
(***************************************************************************)
\* a dict holding document d
PyDict(d) == [t |-> "dict", wf |-> TRUE, doc |-> d]
\* a str holding the JSON text of document d
PyJsonStr(d) == [t |-> "str", wf |-> TRUE, doc |-> d]
\* a str that is not JSON
PyGarbageStr == [t |-> "str", wf |-> FALSE, doc |-> NoDoc]
\* a value json.dumps cannot serialise (a set, an object)
PyObject == [t |-> "object", wf |-> FALSE, doc |-> NoDoc]

\* the documents that are handed over as text (file contents, JSON strings)
TextDocuments ==
    { d \in Documents : Len(d.findings) <= 1 /\ d.conceptSets = {}
                                              /\ d.codesetIds = {} }

PyStrings == { PyJsonStr(d) : d \in TextDocuments } \cup { PyGarbageStr }
PyValues  == { PyDict(d) : d \in Documents } \cup PyStrings \cup { PyObject }

\* the values of a client that remembers an earlier call
HistoryPool == { w \in JavaWarningPool :
                   w.hasGetSeverity /\ ~ w.faulty
                   /\ Str(w.severity) \in {INFO, WARNING, ERROR, CRITICAL} }
HistoryValues ==
    { PyDict(Document("ok", f, FALSE)) : f \in SeqUpTo(HistoryPool, MaxWarnings) }
    \cup { PyDict(Document("noPrimary", <<>>, FALSE)), PyGarbageStr, PyObject }

\* the values of the calls such a client makes between the remembered call
\* and its repetition
BetweenValues == { x \in HistoryValues : Len(x.doc.findings) <= 1 }

\* JSON text: quoted counts the string-literal wrappings around the body,
\* wf says whether the body is the JSON object of doc
JsonText(quoted, wf, d) == [quoted |-> quoted, wf |-> wf, doc |-> d]
NoText == JsonText(0, FALSE, NoDoc)

\* json.dumps: a dict becomes its JSON object, a str becomes a JSON string
\* literal holding the str, anything else raises TypeError
JsonDumpsRaises(value) == value.t = "object"
JsonDumps(value) ==
    IF value.t = "dict" THEN JsonText(0, TRUE, value.doc)
    ELSE JsonText(1, value.wf, value.doc)

\* CohortExpression.fromJson: succeeds on the JSON object of a well-formed
\* document with its required section
FromJsonThrows(text) ==
    ~ (text.quoted = 0 /\ text.wf /\ text.doc.shape = "ok")
FromJson(text) == text.doc

\* Checker.check: a pure function of the expression, the findings of the
\* rules in catalog order
CheckThrows(expr) == expr.checkFails
Check(expr) ==
    UnusedConceptSetRule(expr)
    \o DanglingReferenceRule(expr)
    \o expr.findings
    \o MissingRequiredSectionRule(expr)
    \o MissingExitCriteriaRule(expr)

(***************************************************************************)
(* Finding records (the dicts of the two returned lists)                   *)
(***************************************************************************)
Finding(m, sev, type) == [message |-> m, severity |-> sev, type |-> type]

\* cohort_validator.py:164-172
ConvertThrows(jw) == jw.faulty
ConvertWarning_NoType(jw) ==
    [message |-> Str(jw.message),
     severity |-> IF jw.hasGetSeverity THEN Str(jw.severity) ELSE UNKNOWN]

ConvertWarning_DefaultInfo(jw) ==
    Finding(Str(jw.message),
            IF jw.hasGetSeverity THEN Str(jw.severity) ELSE INFO,
            Str(jw.simpleName))

ConvertWarning(jw) ==
    Finding(Str(jw.message),
            IF jw.hasGetSeverity THEN Str(jw.severity) ELSE UNKNOWN,
            Str(jw.simpleName))

IsErrorSeverity_AsIs(sev) == sev \in {CRITICAL, ERROR}

IsErrorSeverity_CriticalOnly(sev) == Upper(sev) = CRITICAL

IsErrorSeverity_WithWarning(sev) == Upper(sev) \in {CRITICAL, ERROR, WARNING}

\* cohort_validator.py:175-176
IsErrorSeverity(sev) == Upper(sev) \in {CRITICAL, ERROR}

Categorize_DropErrors(warnings, errors, rec) ==
    IF IsErrorSeverity(rec.severity)
    THEN <<warnings, errors>>
    ELSE <<Append(warnings, rec), errors>>

Categorize_Both(warnings, errors, rec) ==
    IF IsErrorSeverity(rec.severity)
    THEN <<Append(warnings, rec), Append(errors, rec)>>
    ELSE <<Append(warnings, rec), errors>>

Categorize_Prepend(warnings, errors, rec) ==
    IF IsErrorSeverity(rec.severity)
    THEN <<warnings, <<rec>> \o errors>>
    ELSE <<<<rec>> \o warnings, errors>>

\* cohort_validator.py:174-179: returns <<warnings, errors>>
Categorize(warnings, errors, rec) ==
    IF IsErrorSeverity(rec.severity)
    THEN <<warnings, Append(errors, rec)>>
    ELSE <<Append(warnings, rec), errors>>

\* exception classes: which ones derive from Exception
ExceptionKinds == {"TypeError", "JavaException", "JVMNotRunning",
                   "JSONDecodeError", "FileNotFoundError", "PermissionError"}

Catches_JsonOnly(exc) == exc = "JSONDecodeError"

\* cohort_validator.py:183-198: the except clauses of validate_cohort
Catches(exc) == exc \in ExceptionKinds

HandlerResult_Warning(exc) ==
    <<<<Finding("Validation error", WARNING, "VALIDATION_ERROR")>>, <<>>>>

HandlerResult_Empty(exc) == <<<<>>, <<>>>>

HandlerResult(exc) ==
    IF exc = "JSONDecodeError"
    THEN <<<<>>, <<Finding("Invalid JSON", CRITICAL, "JSON_ERROR")>>>>
    ELSE <<<<>>, <<Finding("Validation error", CRITICAL, "VALIDATION_ERROR")>>>>

NoResult == <<<<>>, <<>>>>

(***************************************************************************)
(* cli.py                                                                  *)
(***************************************************************************)
Summary_ByWarnings(warnings, errors) ==
    [total_warnings |-> Len(warnings),
     total_errors   |-> Len(errors),
     is_valid       |-> Len(warnings) = 0]

\* cli.py:72-76
Summary(warnings, errors) ==
    [total_warnings |-> Len(warnings),
     total_errors   |-> Len(errors),
     is_valid       |-> Len(errors) = 0]

NoSummary == [total_warnings |-> 0, total_errors |-> 0, is_valid |-> FALSE]

ExitStatus_Zero(errors) == 0

\* cli.py:92
ExitStatus(errors) == IF Len(errors) = 0 THEN 0 ELSE 1

Paths == {"cohort.json", "study.json"}
Jars == {"circe.jar", "other.jar"}

\* the parsed command line (cli.py:16-43); "none" is an option not given
CliArgs ==
    [input_file : Paths, output : {"none", "out.txt"}, format : {"json", "text"},
     jar_path : Jars \cup {"none"}, deps_path : {"none", "deps"}]

(***************************************************************************)
(* State                                                                   *)
(***************************************************************************)
VARIABLES
    entry,       \* how the process was entered: "api", "cli" (cli.main) or
                 \* "main" (cohort_validator.main)
    jvm,         \* the process-wide JVM: [state, classpath]
    validators,  \* the CohortValidator objects
    call,        \* the validate_cohort frame
    fcall,       \* the validate_cohort_file frame
    cli,         \* the cli.main frame
    watch,       \* history: one earlier validate_cohort call and its result
    life,        \* history: the last construction or shutdown and the state
                 \* it started from
    cvmain       \* the cohort_validator.main frame

vars == <<entry, jvm, validators, call, fcall, cli, watch, life, cvmain>>

DefaultJar == "circe.jar"
HasCirce(cp) == cp = "circe.jar"

\* a validator object; _jar_path is read by _start_jvm only, inside __init__
NoValidator == [exists |-> FALSE, jvm_started |-> FALSE]

IdleCall == [pc |-> "idle", caller |-> "none", v |-> 0, arg |-> PyObject,
             text |-> NoText, expr |-> NoDoc, java_warnings |-> <<>>, i |-> 0,
             warnings |-> <<>>, errors |-> <<>>,
             exc |-> "none", parsed |-> "no", checked |-> FALSE,
             ret |-> NoResult]

IdleFile == [pc |-> "idle", v |-> 0, path |-> "none", fs |-> "none",
             content |-> PyGarbageStr, ret |-> NoResult]

NoArgs == [input_file |-> "cohort.json", output |-> "none", format |-> "json",
           jar_path |-> "none", deps_path |-> "none"]

IdleCli == [pc |-> "idle", args |-> NoArgs, cohort_data |-> PyObject,
            validated |-> FALSE, warnings |-> <<>>, errors |-> <<>>,
            summary |-> NoSummary, sink |-> "none", exc |-> "none",
            status |-> -1]

NoWatch == [set |-> FALSE, v |-> 0, arg |-> PyObject, ret |-> NoResult]

NoLife == [op |-> "none", v |-> 0, jar |-> "none",
           before |-> [state |-> "never", classpath |-> "none"],
           flag |-> FALSE, raised |-> FALSE]

IdleMain == [pc |-> "idle", file_path |-> "none", constructed |-> FALSE,
             validated |-> FALSE, shutdown |-> FALSE, exc |-> "none",
             status |-> -1]

Init ==
    /\ entry \in {"api", "cli", "main"}
    /\ jvm = [state |-> "never", classpath |-> "none"]
    /\ validators = [v \in Validators |-> NoValidator]
    /\ call = IdleCall
    /\ fcall = IdleFile
    /\ cli = IdleCli
    /\ watch = NoWatch
    /\ life = NoLife
    /\ cvmain = IdleMain

(***************************************************************************)
(* CohortValidator.__init__ (33-49) with _start_jvm (99-120) and           *)
(* _load_classes (122-135)                                                 *)
(***************************************************************************)
\* jpype.isJVMStarted()
IsJVMStarted == jvm.state = "running"

\* jpype.startJVM raises when the JVM was shut down before
StartJVMRaises == jvm.state = "stopped"

JvmAfterStart_Always(jar) == [state |-> "running", classpath |-> jar]

\* _start_jvm: the JVM after it, when it does not raise
JvmAfterStart(jar) ==
    IF IsJVMStarted THEN jvm ELSE [state |-> "running", classpath |-> jar]

LoadClassesRaises_Never(machine) == FALSE

\* _load_classes: the imports fail when CIRCE is not on the JVM's classpath
LoadClassesRaises(machine) == ~ HasCirce(machine.classpath)

\* __init__ raises: the object is not handed to the caller
InitRaises(jar) ==
    \/ ~ IsJVMStarted /\ StartJVMRaises
    \/ LoadClassesRaises(JvmAfterStart(jar))

InitEffect_NoFlag(v, jarArg) ==
    LET jar == IF jarArg = "none" THEN DefaultJar ELSE jarArg
    IN  /\ jvm' = IF ~ IsJVMStarted /\ StartJVMRaises THEN jvm ELSE JvmAfterStart(jar)
        /\ validators' = IF InitRaises(jar) THEN validators
                         ELSE [validators EXCEPT ![v] =
                                 [exists |-> TRUE, jvm_started |-> FALSE]]

\* the state __init__(jar_path = jarArg) leaves behind for object v
InitEffect(v, jarArg) ==
    LET jar == IF jarArg = "none" THEN DefaultJar ELSE jarArg
    IN  /\ jvm' = IF ~ IsJVMStarted /\ StartJVMRaises THEN jvm ELSE JvmAfterStart(jar)
        /\ validators' = IF InitRaises(jar) THEN validators
                         ELSE [validators EXCEPT ![v] =
                                 [exists |-> TRUE, jvm_started |-> TRUE]]

Construct(v, jarArg) ==
    /\ entry = "api"
    /\ call.pc = "idle" /\ fcall.pc = "idle"
    /\ ~ validators[v].exists
    /\ InitEffect(v, jarArg)
    /\ UNCHANGED <<entry, call, fcall, cli, watch, life, cvmain>>

\* the API client constructs a validator and the history keeps the
\* construction
ConstructKeep(v, jarArg) ==
    /\ entry = "api"
    /\ call.pc = "idle" /\ fcall.pc = "idle"
    /\ ~ validators[v].exists
    /\ InitEffect(v, jarArg)
    /\ life' = [op |-> "construct", v |-> v, jar |-> jarArg, before |-> jvm,
                flag |-> FALSE,
                raised |-> InitRaises(IF jarArg = "none" THEN DefaultJar
                                      ELSE jarArg)]
    /\ UNCHANGED <<entry, call, fcall, cli, watch, cvmain>>

ShutdownEffect_KeepFlag(v) ==
    /\ jvm' = IF IsJVMStarted THEN [state |-> "stopped", classpath |-> "none"] ELSE jvm
    /\ validators' = validators

\* CohortValidator.shutdown (234-238): the state it leaves behind
ShutdownEffect(v) ==
    /\ jvm' = IF IsJVMStarted THEN [state |-> "stopped", classpath |-> "none"] ELSE jvm
    /\ validators' = [validators EXCEPT ![v].jvm_started = FALSE]

\* the API client calls shutdown and the history keeps the call
ShutdownKeep(v) ==
    /\ entry = "api"
    /\ call.pc = "idle" /\ fcall.pc = "idle"
    /\ validators[v].exists
    /\ ShutdownEffect(v)
    /\ life' = [op |-> "shutdown", v |-> v, jar |-> "none", before |-> jvm,
                flag |-> validators[v].jvm_started, raised |-> FALSE]
    /\ UNCHANGED <<entry, call, fcall, cli, watch, cvmain>>

\* the API client calls shutdown
Shutdown(v) ==
    /\ entry = "api"
    /\ call.pc = "idle" /\ fcall.pc = "idle"
    /\ validators[v].exists
    /\ ShutdownEffect(v)
    /\ watch' = NoWatch
    /\ UNCHANGED <<entry, call, fcall, cli, life, cvmain>>

(***************************************************************************)
(* CohortValidator.validate_cohort (137-198), statement by statement       *)
(***************************************************************************)
\* the frame of a call validate_cohort(value) on validator v
EnterCall(v, value, caller) ==
    [IdleCall EXCEPT !.pc = "dumps", !.caller = caller, !.v = v, !.arg = value]

\* the API client calls validate_cohort
CallValidate(v, value) ==
    /\ entry = "api"
    /\ call.pc = "idle" /\ fcall.pc = "idle"
    /\ validators[v].exists
    /\ call' = EnterCall(v, value, "api")
    /\ UNCHANGED <<entry, jvm, validators, fcall, cli, watch, life, cvmain>>

Handle_KeepLists(frame, exc) ==
    IF Catches(exc)
    THEN [frame EXCEPT !.pc = "done", !.exc = exc,
                       !.ret = <<frame.warnings,
                                 frame.errors \o HandlerResult(exc)[2]>>]
    ELSE [frame EXCEPT !.pc = "raised", !.exc = exc]

Handle_ClearArg(frame, exc) ==
    IF Catches(exc)
    THEN [frame EXCEPT !.pc = "done", !.exc = exc, !.ret = HandlerResult(exc),
                       !.arg = PyDict(NoDoc)]
    ELSE [frame EXCEPT !.pc = "raised", !.exc = exc]

\* the except clauses: an exception of class exc left the try block
Handle(frame, exc) ==
    IF Catches(exc)
    THEN [frame EXCEPT !.pc = "done", !.exc = exc, !.ret = HandlerResult(exc)]
    ELSE [frame EXCEPT !.pc = "raised", !.exc = exc]

\* line 153: json.dumps(cohort_json)
StepDumps ==
    /\ call.pc = "dumps"
    /\ call' = IF JsonDumpsRaises(call.arg)
               THEN Handle(call, "TypeError")
               ELSE [call EXCEPT !.pc = "fromJson", !.text = JsonDumps(call.arg)]
    /\ UNCHANGED <<entry, jvm, validators, fcall, cli, watch, life, cvmain>>

AfterFromJson_GoOn(frame, threw) ==
    [frame EXCEPT !.pc = "check", !.expr = FromJson(frame.text)]

\* where control goes after the fromJson call of line 152
AfterFromJson(frame, threw) ==
    IF threw THEN Handle(frame, "JavaException")
    ELSE [frame EXCEPT !.pc = "check", !.expr = FromJson(frame.text)]

JavaCallRaises_Never == FALSE

\* a call into Java fails when the JVM is not running or does not hold the
\* CIRCE classes
JavaCallRaises == ~ IsJVMStarted \/ ~ HasCirce(jvm.classpath)

\* line 152: CohortExpression.fromJson(...)
StepFromJson ==
    /\ call.pc = "fromJson"
    /\ LET threw == JavaCallRaises \/ FromJsonThrows(call.text)
           after == IF JavaCallRaises
                    THEN Handle(call, "JVMNotRunning")
                    ELSE AfterFromJson(call, FromJsonThrows(call.text))
       IN  call' = [after EXCEPT !.parsed = IF threw THEN "failed" ELSE "ok"]
    /\ UNCHANGED <<entry, jvm, validators, fcall, cli, watch, life, cvmain>>

\* lines 160-161: the two fresh lists
FreshLists == <<<<>>, <<>>>>

\* lines 157-161: self._checker.check(cohort_expression), then the lists
StepCheck ==
    /\ call.pc = "check"
    /\ call' = IF CheckThrows(call.expr)
               THEN Handle([call EXCEPT !.checked = TRUE], "JavaException")
               ELSE [call EXCEPT !.pc = "loop", !.checked = TRUE,
                                 !.java_warnings = Check(call.expr),
                                 !.i = 1,
                                 !.warnings = FreshLists[1],
                                 !.errors = FreshLists[2]]
    /\ UNCHANGED <<entry, jvm, validators, fcall, cli, watch, life, cvmain>>

\* lines 163-179: one iteration of the for loop
StepLoop ==
    /\ call.pc = "loop"
    /\ call.i <= Len(call.java_warnings)
    /\ LET jw == call.java_warnings[call.i]
           lists == Categorize(call.warnings, call.errors, ConvertWarning(jw))
       IN call' = IF ConvertThrows(jw)
                  THEN Handle(call, "JavaException")
                  ELSE [call EXCEPT !.i = @ + 1,
                                    !.warnings = lists[1], !.errors = lists[2]]
    /\ UNCHANGED <<entry, jvm, validators, fcall, cli, watch, life, cvmain>>

\* line 181: return warnings, errors
StepReturn ==
    /\ call.pc = "loop"
    /\ call.i > Len(call.java_warnings)
    /\ call' = [call EXCEPT !.pc = "done", !.ret = <<call.warnings, call.errors>>]
    /\ UNCHANGED <<entry, jvm, validators, fcall, cli, watch, life, cvmain>>

\* the API client takes the result
ApiReturn ==
    /\ call.pc = "done" /\ call.caller = "api"
    /\ call' = IdleCall
    /\ UNCHANGED <<entry, jvm, validators, fcall, cli, watch, life, cvmain>>

\* the API client takes the result and the history keeps this call
ApiReturnKeep ==
    /\ call.pc = "done" /\ call.caller = "api"
    /\ ~ watch.set
    /\ call' = IdleCall
    /\ watch' = [set |-> TRUE, v |-> call.v, arg |-> call.arg, ret |-> call.ret]
    /\ UNCHANGED <<entry, jvm, validators, fcall, cli, life, cvmain>>

(***************************************************************************)
(* CohortValidator.validate_cohort_file (200-232)                          *)
(***************************************************************************)
FileNotFound_Warning ==
    <<<<Finding("File not found", WARNING, "FILE_ERROR")>>, <<>>>>

FileNotFound  == <<<<>>, <<Finding("File not found", CRITICAL, "FILE_ERROR")>>>>
FileReadError == <<<<>>, <<Finding("File read error", CRITICAL, "FILE_ERROR")>>>>

\* the API client calls validate_cohort_file
CallValidateFile(v, path) ==
    /\ entry = "api"
    /\ call.pc = "idle" /\ fcall.pc = "idle"
    /\ validators[v].exists
    /\ fcall' = [IdleFile EXCEPT !.pc = "open", !.v = v, !.path = path]
    /\ UNCHANGED <<entry, jvm, validators, call, cli, watch, life, cvmain>>

\* lines 214-216: open and read the file, then call validate_cohort on the
\* text; lines 217-232 when the file is missing or cannot be read
StepOpen ==
    /\ fcall.pc = "open"
    /\ \/ /\ fcall' = [fcall EXCEPT !.pc = "done", !.fs = "missing",
                                    !.ret = FileNotFound]
          /\ UNCHANGED call
       \/ /\ fcall' = [fcall EXCEPT !.pc = "done", !.fs = "unreadable",
                                    !.ret = FileReadError]
          /\ UNCHANGED call
       \/ \E s \in PyStrings :
             /\ fcall' = [fcall EXCEPT !.pc = "validating", !.fs = "read",
                                       !.content = s]
             /\ call' = EnterCall(fcall.v, s, "file")
    /\ UNCHANGED <<entry, jvm, validators, cli, watch, life, cvmain>>

\* line 216: return self.validate_cohort(cohort_json); an exception leaving
\* validate_cohort would reach the clause of line 225
FileReturn ==
    /\ fcall.pc = "validating"
    /\ call.pc \in {"done", "raised"} /\ call.caller = "file"
    /\ fcall' = [fcall EXCEPT !.pc = "done",
                    !.ret = IF call.pc = "done" THEN call.ret ELSE FileReadError]
    /\ call' = IdleCall
    /\ UNCHANGED <<entry, jvm, validators, cli, watch, life, cvmain>>

\* the API client takes the result
ApiFileReturn ==
    /\ entry = "api"
    /\ fcall.pc = "done"
    /\ fcall' = IdleFile
    /\ UNCHANGED <<entry, jvm, validators, call, cli, watch, life, cvmain>>

(***************************************************************************)
(* cli.main (cli.py:14-96)                                                 *)
(***************************************************************************)
CliFail_GoOn(frame, exc) == [frame EXCEPT !.pc = "construct", !.exc = exc]

\* lines 94-96: except Exception ... sys.exit(1)
CliFail(frame, exc) == [frame EXCEPT !.pc = "exited", !.exc = exc, !.status = 1]

\* line 43: the command line is parsed
CliStart(args) ==
    /\ entry = "cli"
    /\ cli.pc = "idle"
    /\ cli' = [cli EXCEPT !.pc = "exists", !.args = args]
    /\ UNCHANGED <<entry, jvm, validators, call, fcall, watch, life, cvmain>>

\* lines 47-50: the input file must exist
CliExists ==
    /\ cli.pc = "exists"
    /\ \E found \in BOOLEAN :
          cli' = IF found THEN [cli EXCEPT !.pc = "load"]
                 ELSE [cli EXCEPT !.pc = "exited", !.status = 1]
    /\ UNCHANGED <<entry, jvm, validators, call, fcall, watch, life, cvmain>>

\* lines 52-53: open the file and json.load it
CliLoad ==
    /\ cli.pc = "load"
    /\ \/ cli' = CliFail(cli, "PermissionError")
       \/ \E s \in PyStrings :
             cli' = IF s.wf
                    THEN [cli EXCEPT !.pc = "construct", !.cohort_data = PyDict(s.doc)]
                    ELSE CliFail(cli, "JSONDecodeError")
    /\ UNCHANGED <<entry, jvm, validators, call, fcall, watch, life, cvmain>>

\* lines 56-62: CohortValidator(**validator_kwargs); __init__ takes no
\* deps_path parameter
CliConstruct ==
    /\ cli.pc = "construct"
    /\ IF cli.args.deps_path # "none"
       THEN /\ cli' = CliFail(cli, "TypeError")
            /\ UNCHANGED <<jvm, validators>>
       ELSE /\ InitEffect(1, cli.args.jar_path)
            /\ cli' = IF validators'[1].exists
                      THEN [cli EXCEPT !.pc = "validate"]
                      ELSE CliFail(cli, "RuntimeError")
    /\ UNCHANGED <<entry, call, fcall, watch, life, cvmain>>

\* line 65: validator.validate_cohort(cohort_data)
CliValidate ==
    /\ cli.pc = "validate"
    /\ call.pc = "idle"
    /\ call' = EnterCall(1, cli.cohort_data, "cli")
    /\ cli' = [cli EXCEPT !.pc = "validating"]
    /\ UNCHANGED <<entry, jvm, validators, fcall, watch, life, cvmain>>

\* lines 65-77: the result is unpacked and the summary built
CliResult ==
    /\ cli.pc = "validating"
    /\ call.pc \in {"done", "raised"} /\ call.caller = "cli"
    /\ cli' = IF call.pc = "raised" THEN CliFail(cli, call.exc)
              ELSE [cli EXCEPT !.pc = "output", !.validated = TRUE,
                               !.warnings = call.ret[1], !.errors = call.ret[2],
                               !.summary = Summary(call.ret[1], call.ret[2])]
    /\ call' = IdleCall
    /\ UNCHANGED <<entry, jvm, validators, fcall, watch, life, cvmain>>

CliOutput_Stdout ==
    /\ cli.pc = "output"
    /\ cli' = [cli EXCEPT !.pc = "exit", !.sink = "stdout"]
    /\ UNCHANGED <<entry, jvm, validators, call, fcall, watch, life, cvmain>>

\* lines 80-89: the result goes to the --output file or to stdout
CliOutput ==
    /\ cli.pc = "output"
    /\ IF cli.args.output # "none"
       THEN \/ cli' = [cli EXCEPT !.pc = "exit", !.sink = "file"]
            \/ cli' = CliFail(cli, "PermissionError")
       ELSE cli' = [cli EXCEPT !.pc = "exit", !.sink = "stdout"]
    /\ UNCHANGED <<entry, jvm, validators, call, fcall, watch, life, cvmain>>

\* line 92: sys.exit(0 if len(errors) == 0 else 1)
CliExit ==
    /\ cli.pc = "exit"
    /\ cli' = [cli EXCEPT !.pc = "exited", !.status = ExitStatus(cli.errors)]
    /\ UNCHANGED <<entry, jvm, validators, call, fcall, watch, life, cvmain>>

(***************************************************************************)
(* cohort_validator.main (cohort_validator.py:241-277)                     *)
(***************************************************************************)
\* what _get_default_jar_path (51-73) returns: the path of the built CIRCE
\* jar, or a path at which no jar is
DefaultJars == {DefaultJar, "absent.jar"}

\* lines 245-249: the argument count is checked before the try block
MainStart(argc_ok, path) ==
    /\ entry = "main"
    /\ cvmain.pc = "idle"
    /\ cvmain' = IF argc_ok
                 THEN [cvmain EXCEPT !.pc = "construct", !.file_path = path]
                 ELSE [cvmain EXCEPT !.pc = "exited", !.status = 1]
    /\ UNCHANGED <<entry, jvm, validators, call, fcall, cli, watch, life>>

\* line 252: validator = CohortValidator(); when it raises the name
\* validator is not bound and control goes to lines 271-273
MainConstruct ==
    /\ cvmain.pc = "construct"
    /\ \E jar \in DefaultJars : InitEffect(1, jar)
    /\ cvmain' = IF validators'[1].exists
                 THEN [cvmain EXCEPT !.pc = "validate", !.constructed = TRUE]
                 ELSE [cvmain EXCEPT !.pc = "finally", !.exc = "RuntimeError",
                                     !.status = 1]
    /\ UNCHANGED <<entry, call, fcall, cli, watch, life>>

\* line 253: validator.validate_cohort_file(file_path)
MainValidate ==
    /\ cvmain.pc = "validate"
    /\ fcall.pc = "idle"
    /\ fcall' = [IdleFile EXCEPT !.pc = "open", !.v = 1, !.path = cvmain.file_path]
    /\ cvmain' = [cvmain EXCEPT !.pc = "validating"]
    /\ UNCHANGED <<entry, jvm, validators, call, cli, watch, life>>

\* lines 253-269: the result is unpacked and printed; a print can raise
\* (stdout closed or a broken pipe), which lines 271-273 turn into status 1
MainPrint ==
    /\ cvmain.pc = "validating"
    /\ fcall.pc = "done"
    /\ fcall' = IdleFile
    /\ \/ cvmain' = [cvmain EXCEPT !.pc = "finally", !.validated = TRUE,
                                    !.status = 0]
       \/ cvmain' = [cvmain EXCEPT !.pc = "finally", !.validated = TRUE,
                                    !.exc = "BrokenPipeError", !.status = 1]
    /\ UNCHANGED <<entry, jvm, validators, call, cli, watch, life>>

MainFinally_OnSuccess ==
    /\ cvmain.pc = "finally"
    /\ IF cvmain.constructed /\ cvmain.exc = "none"
       THEN /\ ShutdownEffect(1)
            /\ cvmain' = [cvmain EXCEPT !.pc = "exited", !.shutdown = TRUE]
       ELSE /\ cvmain' = [cvmain EXCEPT !.pc = "exited"]
            /\ UNCHANGED <<jvm, validators>>
    /\ UNCHANGED <<entry, call, fcall, cli, watch, life>>

\* lines 274-276: finally: if "validator" in locals(): validator.shutdown();
\* then the process exits
MainFinally ==
    /\ cvmain.pc = "finally"
    /\ IF cvmain.constructed
       THEN /\ ShutdownEffect(1)
            /\ cvmain' = [cvmain EXCEPT !.pc = "exited", !.shutdown = TRUE]
       ELSE /\ cvmain' = [cvmain EXCEPT !.pc = "exited"]
            /\ UNCHANGED <<jvm, validators>>
    /\ UNCHANGED <<entry, call, fcall, cli, watch, life>>

\* the statements of validate_cohort and validate_cohort_file
Statements ==
    \/ StepDumps
    \/ StepFromJson
    \/ StepCheck
    \/ StepLoop
    \/ StepReturn
    \/ StepOpen
    \/ FileReturn

\* the life cycle and file calls of an API client
Client ==
    \/ \E v \in Validators, jar \in Jars \cup {"none"} : Construct(v, jar)
    \/ \E v \in Validators : Shutdown(v)
    \/ \E v \in Validators, path \in Paths : CallValidateFile(v, path)
    \/ ApiReturn
    \/ ApiFileReturn

CommandLine ==
    \/ \E args \in CliArgs : CliStart(args)
    \/ CliExists
    \/ CliLoad
    \/ CliConstruct
    \/ CliValidate
    \/ CliResult
    \/ CliOutput
    \/ CliExit

MainProgram ==
    \/ \E argc_ok \in BOOLEAN, path \in Paths : MainStart(argc_ok, path)
    \/ MainConstruct
    \/ MainValidate
    \/ MainPrint
    \/ MainFinally

Next ==
    \/ \E v \in Validators, value \in PyValues : CallValidate(v, value)
    \/ Client
    \/ Statements
    \/ CommandLine
    \/ MainProgram

Spec == Init /\ [][Next]_vars

\* a client that remembers one earlier call: once it has, it repeats that
\* call or makes other calls
HistoryCall(v, value) ==
    /\ watch.set => (value = watch.arg \/ value \in BetweenValues)
    /\ CallValidate(v, value)

\* the same program driven by a client that remembers one earlier call; its
\* documents hold warnings of the four severities only
NextHist ==
    \/ \E v \in Validators, value \in HistoryValues : HistoryCall(v, value)
    \/ ApiReturnKeep
    \/ Client
    \/ Statements
    \/ CommandLine

SpecHist == Init /\ [][NextHist]_vars

\* the values of a client that watches constructions and shutdowns
LifeValues ==
    { PyDict(Document("ok", f, FALSE)) : f \in SeqUpTo(HistoryPool, 1) }
    \cup { PyObject }

\* the same program driven by an API client whose constructions and
\* shutdowns are kept in the history
NextLife ==
    \/ \E v \in Validators, jar \in Jars \cup {"none"} : ConstructKeep(v, jar)
    \/ \E v \in Validators : ShutdownKeep(v)
    \/ \E v \in Validators, value \in LifeValues : CallValidate(v, value)
    \/ ApiReturn
    \/ StepDumps
    \/ StepFromJson
    \/ StepCheck
    \/ StepLoop
    \/ StepReturn

SpecLife == Init /\ [][NextLife]_vars

(***************************************************************************)
(* Properties                                                              *)
(***************************************************************************)
InSeq(x, s) == \E k \in 1..Len(s) : s[k] = x

\* a validate_cohort call that returned from line 181
Succeeded == call.pc = "done" /\ call.exc = "none"

\* the records of the checker's warnings, in the checker's order
Converted == [k \in 1..Len(call.java_warnings) |->
                 ConvertWarning(call.java_warnings[k])]

IsErrorRecord(r) == Upper(r.severity) = ERROR \/ Upper(r.severity) = CRITICAL
IsWarningRecord(r) == ~ IsErrorRecord(r)

\* C1: after a successful validate_cohort, a finding is in the errors list
\* exactly when its upper-cased severity is ERROR or CRITICAL, and in the
\* warnings list otherwise
C1_Partition ==
    Succeeded =>
        /\ call.java_warnings = Check(call.arg.doc)
        /\ \A k \in 1..Len(Converted) :
              LET r == Converted[k]
              IN  IF Upper(r.severity) \in {ERROR, CRITICAL}
                  THEN InSeq(r, call.ret[2]) /\ ~ InSeq(r, call.ret[1])
                  ELSE InSeq(r, call.ret[1]) /\ ~ InSeq(r, call.ret[2])

C1_Witness ==
    /\ Succeeded
    /\ \E r \in {call.ret[2][k] : k \in 1..Len(call.ret[2])} : r.severity = LowerError
    /\ \E r \in {call.ret[1][k] : k \in 1..Len(call.ret[1])} : r.severity = UNKNOWN

\* C2: cli.main exits with status 0 exactly when validation ran, returned an
\* empty errors list and no exception followed; every other run exits with 1
C2_ExitStatus ==
    cli.pc = "exited" =>
        /\ cli.status \in {0, 1}
        /\ cli.status = 0 <=>
              (cli.validated /\ cli.errors = <<>> /\ cli.exc = "none")

C2_Witness ==
    cli.pc = "exited" /\ cli.status = 0 /\ cli.validated /\ Len(cli.warnings) = 1

\* a document handed to validate_cohort that cannot be ingested
IngestionFails(value) ==
    JsonDumpsRaises(value) \/ FromJsonThrows(JsonDumps(value))

IsSingleCritical(result, types) ==
    /\ result[1] = <<>>
    /\ Len(result[2]) = 1
    /\ result[2][1].severity = CRITICAL
    /\ result[2][1].type \in types

\* C3 as stated: every ingestion failure is one CRITICAL finding of type
\* PARSE_ERROR or VALIDATION_ERROR
C3_Original ==
    /\ (call.pc = "done" /\ IngestionFails(call.arg)) =>
           IsSingleCritical(call.ret, {"PARSE_ERROR", "VALIDATION_ERROR"})
    /\ (fcall.pc = "done" /\ (fcall.fs \in {"missing", "unreadable"}
                                \/ IngestionFails(fcall.content))) =>
           IsSingleCritical(fcall.ret, {"PARSE_ERROR", "VALIDATION_ERROR"})

\* C3 amended: every ingestion failure is reported as no warnings and one
\* CRITICAL finding, of type PARSE_ERROR or VALIDATION_ERROR for a document
\* that cannot be ingested and of type FILE_ERROR for a missing or
\* unreadable file
C3_Amended ==
    /\ (call.pc = "done" /\ IngestionFails(call.arg)) =>
           IsSingleCritical(call.ret, {"PARSE_ERROR", "VALIDATION_ERROR"})
    /\ (fcall.pc = "done" /\ fcall.fs \in {"missing", "unreadable"}) =>
           IsSingleCritical(fcall.ret, {"FILE_ERROR"})
    /\ (fcall.pc = "done" /\ fcall.fs = "read" /\ IngestionFails(fcall.content)) =>
           IsSingleCritical(fcall.ret, {"PARSE_ERROR", "VALIDATION_ERROR"})

C3_Witness ==
    /\ fcall.pc = "done" /\ fcall.fs = "missing"
    /\ fcall.ret[2][1].type = "FILE_ERROR"

\* C4: validate_cohort_file on a file holding the JSON text of document D
\* returns what validate_cohort(D) returned
C4_FileSameAsDict ==
    (/\ watch.set
     /\ fcall.pc = "done" /\ fcall.fs = "read"
     /\ fcall.content.wf
     /\ watch.arg = PyDict(fcall.content.doc))
    => fcall.ret = watch.ret

\* C5: validate_cohort never lets an exception out
C5_NeverRaises == call.pc # "raised"

C5_Witness ==
    /\ call.pc = "done" /\ call.exc = "JavaException"
    /\ call.checked /\ call.i = 2

\* C6: the checker runs only after fromJson succeeded in the same call; when
\* fromJson fails no rule runs and the result is the single failure finding
C6_CheckAfterParse ==
    /\ (call.checked \/ call.pc \in {"check", "loop"}) => call.parsed = "ok"
    /\ call.parsed = "failed" =>
          /\ call.pc = "done" /\ ~ call.checked
          /\ call.java_warnings = <<>>
          /\ call.ret[1] = <<>> /\ Len(call.ret[2]) = 1

C6_Witness ==
    call.pc = "done" /\ call.parsed = "failed" /\ call.arg.t = "dict"

\* C7: on a successful run every checker warning is in exactly one of the
\* two lists, so the lengths add up and an error does not end the reporting
C7_EveryFindingOnce ==
    Succeeded =>
        /\ Len(call.ret[1]) + Len(call.ret[2]) = Len(Check(call.arg.doc))
        /\ \A k \in 1..Len(Converted) :
              InSeq(Converted[k], call.ret[1]) \/ InSeq(Converted[k], call.ret[2])

C7_Witness ==
    /\ Succeeded
    /\ Len(call.java_warnings) = 2
    /\ IsErrorRecord(Converted[1])
    /\ call.ret[1] = <<Converted[2]>>

\* C8: each returned list holds its records in the order the checker
\* produced them
C8_OrderKept ==
    Succeeded =>
        /\ call.ret[1] = SelectSeq(Converted, IsWarningRecord)
        /\ call.ret[2] = SelectSeq(Converted, IsErrorRecord)

C8_Witness ==
    /\ Succeeded
    /\ Len(call.ret[2]) = 2
    /\ call.ret[2][1] # call.ret[2][2]

\* C9: in the CLI result is_valid is true exactly when errors is empty, and
\* the two totals are the lengths of the two lists
C9_Summary ==
    (cli.validated /\ cli.pc \in {"output", "exit", "exited"}) =>
        /\ cli.summary.is_valid <=> (cli.errors = <<>>)
        /\ cli.summary.total_warnings = Len(cli.warnings)
        /\ cli.summary.total_errors = Len(cli.errors)

C9_Witness ==
    /\ cli.validated /\ cli.pc = "output"
    /\ cli.summary.is_valid /\ cli.summary.total_warnings = 1

C11_ArgumentUnchanged ==
    [][/\ (call.pc # "idle" /\ call'.pc # "idle") => call'.arg = call.arg
       /\ (cli.pc = "validating" /\ call.pc # "idle") =>
              (call.arg = cli.cohort_data /\ cli'.cohort_data = cli.cohort_data)
       /\ (fcall.pc = "validating" /\ call.pc # "idle") =>
              (call.arg = fcall.content /\ fcall'.content = fcall.content)]_vars

C11_Witness ==
    /\ call.pc = "done" /\ call.exc = "JavaException" /\ call.checked
    /\ call.arg.t = "dict" /\ call.arg.doc.checkFails

\* a document without defects that the parser and the checker accept
IsCleanDoc(d) ==
    /\ d.shape = "ok" /\ ~ d.checkFails /\ d.findings = <<>>
    /\ d.conceptSets \subseteq d.codesetIds
    /\ d.codesetIds \subseteq d.conceptSets
    /\ ~ d.primaryEmpty /\ d.endStrategy
IsCleanDict(value) == value.t = "dict" /\ IsCleanDoc(value.doc)

\* C12: two validation calls share no mutable state, whether on the same
\* validator or on different ones: what was done with another validator
\* does not reach a call, so a call on a validator that was constructed and
\* never shut down validates a document without defects
C12_NoSharedState ==
    (/\ call.pc = "done"
     /\ validators[call.v].exists /\ validators[call.v].jvm_started
     /\ IsCleanDict(call.arg))
    => call.ret = NoResult

\* the records of a pair of lists
RecordsOf(result) ==
    {result[1][k] : k \in 1..Len(result[1])} \cup
    {result[2][k] : k \in 1..Len(result[2])}

\* the records validate_cohort or validate_cohort_file has returned, and the
\* ones cli.main holds
ReturnedRecords ==
    (IF call.pc = "done" THEN RecordsOf(call.ret) ELSE {})
    \cup (IF fcall.pc = "done" THEN RecordsOf(fcall.ret) ELSE {})
    \cup RecordsOf(<<cli.warnings, cli.errors>>)

\* the Python strings a record can hold
MessageStrings ==
    {Str(w.message) : w \in JavaWarningPool \cup RuleWarnings}
    \cup {"Invalid JSON", "Validation error", "File not found", "File read error"}
SeverityStrings ==
    {Str(w.severity) : w \in JavaWarningPool \cup RuleWarnings}
    \cup {UNKNOWN, CRITICAL}
TypeStrings ==
    {Str(w.simpleName) : w \in JavaWarningPool \cup RuleWarnings}
    \cup {"JSON_ERROR", "VALIDATION_ERROR", "FILE_ERROR"}

\* C13: every finding record of either list, converted from a checker
\* warning or built by an except clause, has exactly the three fields
\* message, severity and type, and each holds a string
C13_ThreeStringFields ==
    \A r \in ReturnedRecords :
        /\ DOMAIN r = {"message", "severity", "type"}
        /\ r.message \in MessageStrings
        /\ r.severity \in SeverityStrings
        /\ r.type \in TypeStrings

C13_Witness ==
    /\ Succeeded /\ Len(call.ret[1]) = 1 /\ Len(call.ret[2]) = 1
    /\ call.ret[1][1].severity = UNKNOWN
    /\ call.ret[2][1].type = "DefaultWarning"

C15_DepsPathValidates ==
    (/\ cli.pc = "exited"
     /\ cli.args.deps_path # "none"
     /\ cli.cohort_data.t = "dict"
     /\ HasCirce(IF cli.args.jar_path = "none" THEN DefaultJar
                 ELSE cli.args.jar_path))
    => /\ cli.validated
       /\ cli.exc = "none" => (cli.status = 0 <=> cli.errors = <<>>)

\* C16: a document without the required PrimaryCriteria section makes
\* validate_cohort return a non-empty errors list, and the summary of
\* cli.main then says is_valid = false
C16_NoPrimaryIsError ==
    /\ (call.pc = "done" /\ call.arg.doc.shape = "noPrimary") =>
           Len(call.ret[2]) > 0
    /\ (cli.validated /\ cli.cohort_data.doc.shape = "noPrimary") =>
           (Len(cli.errors) > 0 /\ ~ cli.summary.is_valid)

C16_Witness ==
    /\ cli.validated /\ cli.pc = "exited"
    /\ cli.cohort_data.doc.shape = "noPrimary"
    /\ cli.errors[1].type = "VALIDATION_ERROR" /\ cli.status = 1

\* C17: validating an expression without defects (every concept set
\* referenced, every reference defined, primary criteria present, end
\* strategy present, nothing for the other rules) returns two empty lists,
\* through validate_cohort, through validate_cohort_file and through
\* cli.main, whose summary then says is_valid = true
C17_CleanIsValid ==
    /\ (call.pc = "done" /\ call.caller # "file" /\ IsJVMStarted
         /\ IsCleanDict(call.arg)) =>
           call.ret = NoResult
    /\ (cli.validated /\ cli.exc = "none" /\ IsCleanDict(cli.cohort_data)) =>
           (cli.warnings = <<>> /\ cli.errors = <<>> /\ cli.summary.is_valid)
    /\ (fcall.pc = "done" /\ fcall.fs = "read" /\ IsJVMStarted
         /\ fcall.content.wf /\ IsCleanDoc(fcall.content.doc)) =>
           fcall.ret = NoResult

\* the positions of a list holding a record of the given type, and those
\* that also hold the given message
OfType(list, type) == {k \in 1..Len(list) : list[k].type = type}
OfTypeNaming(list, type, message) ==
    {k \in OfType(list, type) : list[k].message = message}

HasDanglingReference(frame) ==
    /\ frame.arg.t = "dict" /\ frame.arg.doc.shape = "ok"
    /\ Dangling(frame.arg.doc) # {}

\* C20: validate_cohort on an expression with a dangling CodesetId returns
\* (it does not raise) and its two lists together hold at least one record;
\* when the checker ran, a record names each dangling id
C20_DanglingReference ==
    /\ (call.pc \in {"done", "raised"} /\ HasDanglingReference(call)) =>
          /\ call.pc = "done"
          /\ Len(call.ret[1]) + Len(call.ret[2]) >= 1
    /\ (Succeeded /\ HasDanglingReference(call)) =>
          \A id \in Dangling(call.arg.doc) :
              \E r \in RecordsOf(call.ret) :
                  r.message = Str(DanglingReferenceWarning(id).message)

C20_Witness ==
    /\ Succeeded
    /\ call.arg.doc.conceptSets = {1} /\ call.arg.doc.codesetIds = {1, DanglingId}
    /\ call.ret[1] = <<>>
    /\ Len(call.ret[2]) = 1
    /\ call.ret[2][1].message = "Concept set 99 is not defined"

\* C21: validate_cohort_file on a path that does not exist returns no
\* warnings and exactly one error, CRITICAL and of type FILE_ERROR, and
\* validate_cohort (so the parser and the checker) was not entered
C21_MissingFile ==
    (fcall.pc = "done" /\ fcall.fs = "missing") =>
        /\ fcall.ret[1] = <<>>
        /\ Len(fcall.ret[2]) = 1
        /\ fcall.ret[2][1].severity = CRITICAL
        /\ fcall.ret[2][1].type = "FILE_ERROR"
        /\ call = IdleCall

C21_Witness ==
    /\ fcall.pc = "done" /\ fcall.fs = "missing"
    /\ fcall.path = "study.json"
    /\ fcall.ret[2][1].message = "File not found"

\* C22: a construction starts the JVM only when it was not running: a
\* construction made while the JVM runs leaves the JVM as it was, the JVM
\* changes only from never started to running, and a validator that was
\* constructed has _jvm_started = True and a running JVM
C22_StartOnce ==
    life.op = "construct" =>
        /\ life.before.state = "running" => jvm = life.before
        /\ jvm # life.before =>
              (life.before.state = "never" /\ jvm.state = "running")
        /\ validators[life.v].exists =>
              (~ life.raised /\ validators[life.v].jvm_started
               /\ jvm.state = "running")

C22_Witness ==
    /\ life.op = "construct" /\ life.before.state = "running"
    /\ life.jar = "other.jar"
    /\ validators[life.v].exists /\ validators[life.v].jvm_started
    /\ \E w \in Validators : w # life.v /\ validators[w].exists
    /\ jvm.classpath = "circe.jar"

\* C23: in every reachable state a validator whose _jvm_started is True
\* lives in a process whose JVM is running
C23_FlagImpliesRunning ==
    \A v \in Validators :
        (validators[v].exists /\ validators[v].jvm_started) => IsJVMStarted

\* C24: after shutdown() the JVM is not running and the validator's
\* _jvm_started is False; a shutdown() on a validator that was already shut
\* down returns normally and leaves the JVM and the flag as they were
C24_ShutdownIdempotent ==
    life.op = "shutdown" =>
        /\ ~ life.raised
        /\ ~ IsJVMStarted
        /\ ~ validators[life.v].jvm_started
        /\ (~ life.flag /\ life.before.state # "running") => jvm = life.before

C24_Witness ==
    /\ life.op = "shutdown"
    /\ ~ life.flag /\ life.before.state = "stopped"
    /\ jvm.state = "stopped" /\ ~ validators[life.v].jvm_started

\* C25: a validate_cohort call made after the JVM was shut down, through
\* the validator's own shutdown() or another instance's, does not raise and
\* returns no warnings and one error, CRITICAL and of type VALIDATION_ERROR
C25_ValidateAfterShutdown ==
    (call.pc \in {"done", "raised"} /\ jvm.state = "stopped") =>
        /\ call.pc = "done"
        /\ call.ret[1] = <<>>
        /\ Len(call.ret[2]) = 1
        /\ call.ret[2][1].severity = CRITICAL
        /\ call.ret[2][1].type = "VALIDATION_ERROR"

C25_Witness ==
    /\ call.pc = "done" /\ jvm.state = "stopped"
    /\ validators[call.v].jvm_started
    /\ IsCleanDict(call.arg)
    /\ call.exc = "JVMNotRunning"
    /\ call.ret[2][1].type = "VALIDATION_ERROR"

\* C26: when an exception ends the conversion loop after some warnings were
\* converted, the records gathered so far are not returned: the result is
\* no warnings and the single VALIDATION_ERROR record
C26_AllOrNothing ==
    (call.pc = "done" /\ call.exc # "none" /\ call.checked
     /\ Len(call.warnings) + Len(call.errors) > 0) =>
        /\ call.ret[1] = <<>>
        /\ Len(call.ret[2]) = 1
        /\ call.ret[2][1].type = "VALIDATION_ERROR"
        /\ call.ret[2][1].severity = CRITICAL

C26_Witness ==
    /\ call.pc = "done" /\ call.exc = "JavaException" /\ call.checked
    /\ call.i = 2 /\ Len(call.java_warnings) = 2
    /\ call.java_warnings[2].faulty
    /\ Len(call.warnings) = 1
    /\ call.ret = <<<<>>, <<Finding("Validation error", CRITICAL, "VALIDATION_ERROR")>>>>

\* C27: a construction made while the JVM runs leaves the JVM's classpath
\* as the starting validator set it, whatever jar_path it is given, and it
\* succeeds exactly when the classes load from that classpath
C27_JarPathIgnored ==
    (life.op = "construct" /\ life.before.state = "running") =>
        /\ jvm.state = "running"
        /\ jvm.classpath = life.before.classpath
        /\ life.raised <=> ~ HasCirce(life.before.classpath)
        /\ validators[life.v].exists <=> HasCirce(life.before.classpath)

C27_Witness ==
    /\ life.op = "construct" /\ life.before.state = "running"
    /\ life.jar = "circe.jar" /\ life.before.classpath = "other.jar"
    /\ life.raised /\ ~ validators[life.v].exists
    /\ jvm.classpath = "other.jar"

\* cli.main has found its input file and parsed it as JSON
CliLoaded == cli.cohort_data.t = "dict"

\* C28: in cli.main the validator is constructed, the JVM started,
\* validation run and a result emitted only after the input file was found
\* and parsed; a run whose input file is missing or malformed exits with
\* status 1, the JVM never started, nothing validated and nothing emitted
C28_LoadBeforeConstruct ==
    entry = "cli" =>
        /\ (\/ jvm.state # "never" \/ validators[1].exists
            \/ call.pc # "idle" \/ cli.validated \/ cli.sink # "none")
           => (CliLoaded /\ cli.pc \notin {"idle", "exists", "load"})
        /\ (cli.pc = "exited" /\ ~ CliLoaded) =>
              /\ cli.status = 1
              /\ jvm.state = "never"
              /\ ~ cli.validated
              /\ cli.sink = "none"

C28_Witness ==
    /\ cli.pc = "exited" /\ ~ CliLoaded
    /\ cli.exc = "JSONDecodeError" /\ cli.status = 1
    /\ cli.args.output = "out.txt" /\ jvm.state = "never"

\* the one sink cli.main is to emit its result to
ExpectedSink == IF cli.args.output # "none" THEN "file" ELSE "stdout"

C30_MainShutsDown ==
    /\ cvmain.shutdown => (cvmain.pc = "exited" /\ cvmain.constructed)
    /\ cvmain.pc = "exited" =>
          /\ cvmain.constructed <=> cvmain.shutdown
          /\ cvmain.constructed =>
                (~ IsJVMStarted /\ ~ validators[1].jvm_started)
          /\ ~ cvmain.constructed =>
                (~ validators[1].exists /\ cvmain.status = 1)
          /\ cvmain.exc # "none" => cvmain.status = 1

C30_Witness ==
    /\ cvmain.pc = "exited" /\ cvmain.constructed /\ cvmain.validated
    /\ cvmain.exc = "BrokenPipeError" /\ cvmain.status = 1
    /\ cvmain.shutdown /\ jvm.state = "stopped"

====
